---- MODULE Spec2Model ----
(***************************************************************************)
(* S3Manager (src/base_utils/aws/s3_manager.py): the concurrent batch      *)
(* upload of a flat directory, the single-file upload and download, and    *)
(* the scoped temporary download.                                          *)
(*                                                                         *)
(* One behaviour is one call of one method on a constructed S3Manager.     *)
(* The storage client and the local filesystem are the environment: the    *)
(* result of every client call and of every os.remove is chosen            *)
(* nondeterministically.                                                   *)
(***************************************************************************)
EXTENDS Naturals, Sequences, FiniteSets

\* ------------------------------------------------------------------ bounds
MaxFiles == 3
MaxWorkers == 3

AllNames == <<"a.txt", "b.txt", "c.txt", "d.txt", "e.txt">>
FileNames == {AllNames[i] : i \in 1..MaxFiles}
DirNames == {"subdir"}

\* What one call of the storage client (s3.upload_file, s3.download_file)
\* can do: complete, raise botocore's ClientError, or raise anything else
\* (boto3's S3UploadFailedError, botocore's EndpointConnectionError, an
\* OSError of the local side, ...).
ClientOutcomes == {"ok", "ClientError", "OtherError"}
\* What os.remove can do.
RemoveOutcomes == {"ok", "OSError"}
\* How the caller's with-block of download_file_temp can end.
BlockExits == {"normal", "ClientError", "OtherError"}

VARIABLES
    dirExists,     \* os.path.isdir(source_dir)
    localFiles,    \* names of the regular files directly in source_dir
    subdirs,       \* names of the subdirectories directly in source_dir
    op,            \* the method called
    arg,           \* the file of a single-file call
    pc,            \* position of the calling thread
    max_workers,   \* argument of upload_files_batch
    delete_after,  \* argument of upload_files_batch
    files,         \* the list `files` of upload_files_batch
    queue,         \* the executor's work queue
    future,        \* future_to_file, by file: state and result of its future
    yielded,       \* the futures as_completed has handed to the loop
    cur,           \* `local` of the loop iteration that is removing a file
    results,       \* the list `results`, each entry with the file it is for
    removed,       \* files os.remove was called for
    removeFailed,  \* files for which os.remove raised OSError
    attempts,      \* number of storage client calls made, by file
    lastOutcome,   \* what the last storage client call of a single call did
    ret,           \* the value returned: "unset", "True", "False", "None"
    raised,        \* the error that left the call: "none" or its kind
    temp_path,     \* download_file_temp: "None" or the temporary file's name
    tempExists,    \* whether the temporary file is on disk
    pending        \* download_file_temp: the error in flight towards finally

vars == <<dirExists, localFiles, subdirs, op, arg, pc, max_workers,
          delete_after, files, queue, future, yielded, cur, results, removed,
          removeFailed, attempts, lastOutcome, ret, raised, temp_path,
          tempExists, pending>>

fsVars == <<dirExists, subdirs>>
batchVars == <<max_workers, delete_after, files, queue, future, yielded, cur,
               results, removed, removeFailed>>
tempVars == <<temp_path, tempExists, pending>>

BoolStr(b) == IF b THEN "True" ELSE "False"

NoFuture == [state |-> "NONE", result |-> "unset"]

Init ==
    /\ dirExists \in BOOLEAN
    /\ localFiles \in SUBSET FileNames
    /\ subdirs \in SUBSET DirNames
    /\ ~dirExists => (localFiles = {} /\ subdirs = {})
    /\ op = "none"
    /\ arg = "none"
    /\ pc = "idle"
    /\ max_workers = 1
    /\ delete_after = FALSE
    /\ files = {}
    /\ queue = <<>>
    /\ future = [f \in FileNames |-> NoFuture]
    /\ yielded = {}
    /\ cur = "none"
    /\ results = <<>>
    /\ removed = {}
    /\ removeFailed = {}
    /\ attempts = [f \in FileNames |-> 0]
    /\ lastOutcome = "none"
    /\ ret = "unset"
    /\ raised = "none"
    /\ temp_path = "None"
    /\ tempExists = FALSE
    /\ pending = "none"

\* ------------------------------------------------- single-file primitives

\* upload_file: try: s3.upload_file(...); return True / except ClientError:
\* return False. Any other error is not caught and leaves the function.
upload_file(outcome) ==
    CASE outcome = "ok" -> [kind |-> "return", value |-> "True"]
      [] outcome = "ClientError" -> [kind |-> "return", value |-> "False"]
      [] OTHER -> [kind |-> "raise", value |-> outcome]

\* download_file: the same shape around s3.download_file.
download_file(outcome) ==
    CASE outcome = "ok" -> [kind |-> "return", value |-> "True"]
      [] outcome = "ClientError" -> [kind |-> "return", value |-> "False"]
      [] OTHER -> [kind |-> "raise", value |-> outcome]

\* A caller calls upload_file(bucket, f, ...): one call of the client.
CallUploadFile(f, outcome) ==
    /\ pc = "idle"
    /\ op' = "upload_file"
    /\ arg' = f
    /\ attempts' = [attempts EXCEPT ![f] = @ + 1]
    /\ lastOutcome' = outcome
    /\ LET r == upload_file(outcome) IN
         IF r.kind = "return"
         THEN /\ pc' = "returned" /\ ret' = r.value /\ raised' = raised
         ELSE /\ pc' = "raised" /\ raised' = r.value /\ ret' = ret
    /\ UNCHANGED <<fsVars, localFiles, batchVars, tempVars>>

\* A caller calls download_file(bucket, ..., f): one call of the client; a
\* completed download leaves the file at its destination.
CallDownloadFile(f, outcome) ==
    /\ pc = "idle"
    /\ op' = "download_file"
    /\ arg' = f
    /\ attempts' = [attempts EXCEPT ![f] = @ + 1]
    /\ lastOutcome' = outcome
    /\ localFiles' = IF outcome = "ok" /\ dirExists
                     THEN localFiles \cup {f} ELSE localFiles
    /\ LET r == download_file(outcome) IN
         IF r.kind = "return"
         THEN /\ pc' = "returned" /\ ret' = r.value /\ raised' = raised
         ELSE /\ pc' = "raised" /\ raised' = r.value /\ ret' = ret
    /\ UNCHANGED <<fsVars, batchVars, tempVars>>

\* ------------------------------------------------------ upload_files_batch

\* os.listdir(source_dir)
Listing == localFiles \cup subdirs

\* os.path.isfile(os.path.join(source_dir, fname))
IsFile(n) == n \in localFiles

\* The list `files`: the directory's direct regular files, no recursion.
DirectFiles == {n \in Listing : IsFile(n)}

\* Faulty variant of NoFilesFound: the emptiness check is left out.
NoFilesFoundUnchecked(fs) == FALSE

\* `if not files`
NoFilesFound(fs) == fs = {}

\* Faulty variant of all_ok: any(results) in place of all(results).
RECURSIVE any_ok(_)
any_ok(rs) == IF rs = <<>> THEN FALSE ELSE Head(rs).ok \/ any_ok(Tail(rs))

\* all(results)
RECURSIVE all_ok(_)
all_ok(rs) == IF rs = <<>> THEN TRUE ELSE Head(rs).ok /\ all_ok(Tail(rs))

\* The uploads a worker thread is running now.
Running == {f \in FileNames : future[f].state = "RUNNING"}

\* Faulty variant of CanStart: max_workers is not passed to the executor, so
\* every queued task starts at once.
CanStartUnbounded == TRUE

\* ThreadPoolExecutor(max_workers=max_workers): a queued task starts only
\* while fewer than max_workers worker threads are busy.
CanStart == Cardinality(Running) < max_workers

\* Every (local, s3) of `files` has been submitted: the dict comprehension
\* has finished and the loop over as_completed runs.
AllSubmitted == \A f \in files : future[f].state # "NONE"

\* Faulty variant of LoopDone: the loop is left after the first completed
\* future.
LoopDoneAfterFirst == yielded # {}

\* as_completed(future_to_file) is exhausted: it has yielded every future.
LoopDone == yielded = files

\* Faulty variant of HandleCompleted: no `except Exception` around
\* future.result(), so an upload's error leaves the loop.
HandleCompletedNoExcept(res, da) ==
    CASE res = "True" -> [ok |-> TRUE, remove |-> da, propagate |-> FALSE]
      [] res = "False" -> [ok |-> FALSE, remove |-> FALSE, propagate |-> FALSE]
      [] OTHER -> [ok |-> FALSE, remove |-> FALSE, propagate |-> TRUE]

\* Faulty variant of HandleCompleted: os.remove is called outside the
\* `if success` branch, for failed uploads too.
HandleCompletedRemoveAlways(res, da) ==
    CASE res = "True" -> [ok |-> TRUE, remove |-> da, propagate |-> FALSE]
      [] res = "False" -> [ok |-> FALSE, remove |-> da, propagate |-> FALSE]
      [] OTHER -> [ok |-> FALSE, remove |-> FALSE, propagate |-> FALSE]

\* Faulty variant of HandleCompleted: delete_after is ignored in the loop.
HandleCompletedNoRemove(res, da) ==
    CASE res = "True" -> [ok |-> TRUE, remove |-> FALSE, propagate |-> FALSE]
      [] res = "False" -> [ok |-> FALSE, remove |-> FALSE, propagate |-> FALSE]
      [] OTHER -> [ok |-> FALSE, remove |-> FALSE, propagate |-> FALSE]

\* The body of the loop for one completed future whose outcome is res
\* ("True" or "False" returned by upload_file, "exception" when it raised):
\* what is appended to results, whether os.remove(local) is called next, and
\* whether an error leaves the loop.
HandleCompleted(res, da) ==
    CASE res = "True" -> [ok |-> TRUE, remove |-> da, propagate |-> FALSE]
      [] res = "False" -> [ok |-> FALSE, remove |-> FALSE, propagate |-> FALSE]
      [] OTHER -> [ok |-> FALSE, remove |-> FALSE, propagate |-> FALSE]

\* Faulty variant of AfterRemove: no inner try around os.remove, so its
\* OSError reaches the outer `except Exception`, which appends False.
AfterRemoveOuterExcept(rs, f, out) ==
    IF out = "OSError" THEN Append(rs, [file |-> f, ok |-> FALSE]) ELSE rs

\* `results` after os.remove(local) ended with `out`: the OSError is caught
\* by the inner try and logged, nothing is appended.
AfterRemove(rs, f, out) == rs

\* The call: the isdir check, the listing, the emptiness check.
CallUploadFilesBatch(mw, da) ==
    /\ pc = "idle"
    /\ op' = "upload_files_batch"
    /\ max_workers' = mw
    /\ delete_after' = da
    /\ IF ~dirExists
       THEN /\ pc' = "returned" /\ ret' = "False" /\ files' = files
       ELSE IF NoFilesFound(DirectFiles)
            THEN /\ pc' = "returned" /\ ret' = "False" /\ files' = files
            ELSE /\ pc' = "pool" /\ ret' = ret /\ files' = DirectFiles
    /\ UNCHANGED <<fsVars, localFiles, arg, queue, future, yielded, cur,
                   results, removed, removeFailed, attempts, lastOutcome,
                   raised, tempVars>>

\* executor.submit(self.upload_file, bucket, local, s3) for one more file.
Submit(f) ==
    /\ op = "upload_files_batch"
    /\ pc = "pool"
    /\ f \in files
    /\ future[f].state = "NONE"
    /\ future' = [future EXCEPT ![f] = [state |-> "PENDING", result |-> "unset"]]
    /\ queue' = Append(queue, f)
    /\ UNCHANGED <<fsVars, localFiles, op, arg, pc, max_workers, delete_after,
                   files, yielded, cur, results, removed, removeFailed,
                   attempts, lastOutcome, ret, raised, tempVars>>

\* A free worker thread takes the oldest queued task and calls upload_file,
\* which calls the storage client.
WorkerTake ==
    /\ op = "upload_files_batch"
    /\ queue # <<>>
    /\ CanStart
    /\ LET f == Head(queue) IN
         /\ future' = [future EXCEPT ![f] = [state |-> "RUNNING", result |-> "unset"]]
         /\ attempts' = [attempts EXCEPT ![f] = @ + 1]
    /\ queue' = Tail(queue)
    /\ UNCHANGED <<fsVars, localFiles, op, arg, pc, max_workers, delete_after,
                   files, yielded, cur, results, removed, removeFailed,
                   lastOutcome, ret, raised, tempVars>>

\* The storage client call of a running upload ends; upload_file returns or
\* raises, and the executor stores that in the future.
WorkerFinish(f, outcome) ==
    /\ op = "upload_files_batch"
    /\ future[f].state = "RUNNING"
    /\ LET r == upload_file(outcome) IN
         future' = [future EXCEPT ![f] =
                      [state |-> "FINISHED",
                       result |-> IF r.kind = "return" THEN r.value
                                  ELSE "exception"]]
    /\ UNCHANGED <<fsVars, localFiles, op, arg, pc, max_workers, delete_after,
                   files, queue, yielded, cur, results, removed, removeFailed,
                   attempts, lastOutcome, ret, raised, tempVars>>

\* One iteration of `for future in as_completed(...)`, up to the point where
\* os.remove is called: future.result(), results.append, the branch.
AsCompletedNext(f) ==
    /\ op = "upload_files_batch"
    /\ pc = "pool"
    /\ AllSubmitted
    /\ f \in files \ yielded
    /\ future[f].state = "FINISHED"
    /\ yielded' = yielded \cup {f}
    /\ LET h == HandleCompleted(future[f].result, delete_after) IN
         IF h.propagate
         THEN /\ pc' = "raised"
              /\ raised' = "OtherError"
              /\ UNCHANGED <<results, cur>>
         ELSE /\ results' = Append(results, [file |-> f, ok |-> h.ok])
              /\ raised' = raised
              /\ IF h.remove
                 THEN pc' = "remove" /\ cur' = f
                 ELSE pc' = "pool" /\ cur' = cur
    /\ UNCHANGED <<fsVars, localFiles, op, arg, max_workers, delete_after,
                   files, queue, future, removed, removeFailed, attempts,
                   lastOutcome, ret, tempVars>>

\* os.remove(local) of the iteration, inside its own try/except OSError.
Remove(out) ==
    /\ op = "upload_files_batch"
    /\ pc = "remove"
    /\ removed' = removed \cup {cur}
    /\ IF out = "ok"
       THEN /\ localFiles' = localFiles \ {cur}
            /\ removeFailed' = removeFailed
       ELSE /\ localFiles' = localFiles
            /\ removeFailed' = removeFailed \cup {cur}
    /\ results' = AfterRemove(results, cur, out)
    /\ pc' = "pool"
    /\ cur' = "none"
    /\ UNCHANGED <<fsVars, op, arg, max_workers, delete_after, files, queue,
                   future, yielded, attempts, lastOutcome, ret, raised,
                   tempVars>>

\* The loop ends, the with-block's exit waits for the worker threads
\* (shutdown(wait=True)), and all(results) is returned.
ReturnAllOk ==
    /\ op = "upload_files_batch"
    /\ pc = "pool"
    /\ AllSubmitted
    /\ LoopDone
    /\ queue = <<>>
    /\ Running = {}
    /\ ret' = BoolStr(all_ok(results))
    /\ pc' = "returned"
    /\ UNCHANGED <<fsVars, localFiles, op, arg, max_workers, delete_after,
                   files, queue, future, yielded, cur, results, removed,
                   removeFailed, attempts, lastOutcome, raised, tempVars>>

\* ------------------------------------------------------ download_file_temp

\* Faulty variant of Cleanup: the unlink follows the yield instead of
\* sitting in finally, so it is skipped when an error is in flight.
CleanupOnSuccessOnly(tp, exists) ==
    IF pending = "none" /\ tp # "None" /\ exists THEN FALSE ELSE exists

\* The finally block: `if temp_path and os.path.exists(temp_path):
\* os.unlink(temp_path)`; the value is whether the file is on disk after it.
Cleanup(tp, exists) == IF tp # "None" /\ exists THEN FALSE ELSE exists

\* Entering the with statement: temp_path = None, then NamedTemporaryFile(
\* delete=False) creates the file, or fails and nothing was created.
CallDownloadFileTemp(f, created) ==
    /\ pc = "idle"
    /\ op' = "download_file_temp"
    /\ arg' = f
    /\ IF created
       THEN /\ temp_path' = "tmpfile"
            /\ tempExists' = TRUE
            /\ pending' = pending
            /\ pc' = "temp_download"
       ELSE /\ temp_path' = "None"
            /\ tempExists' = FALSE
            /\ pending' = "OSError"
            /\ pc' = "temp_finally"
    /\ UNCHANGED <<fsVars, localFiles, batchVars, attempts, lastOutcome, ret,
                   raised>>

\* self.s3.download_file(bucket, source_file_path, temp_path): on success the
\* generator yields temp_path; a ClientError is logged and re-raised by the
\* except clause, any other error just propagates; both reach finally.
TempDownload(outcome) ==
    /\ op = "download_file_temp"
    /\ pc = "temp_download"
    /\ attempts' = [attempts EXCEPT ![arg] = @ + 1]
    /\ lastOutcome' = outcome
    /\ IF outcome = "ok"
       THEN pc' = "yielded" /\ pending' = pending
       ELSE pc' = "temp_finally" /\ pending' = outcome
    /\ UNCHANGED <<fsVars, localFiles, op, arg, batchVars, ret, raised,
                   temp_path, tempExists>>

\* The caller's with-block runs with the path: it may remove the file itself
\* (unlinked), and it ends normally or raises (exit); what it raises is
\* thrown into the generator at the yield and reaches finally.
CallerBlock(exit, unlinked) ==
    /\ op = "download_file_temp"
    /\ pc = "yielded"
    /\ tempExists' = IF unlinked THEN FALSE ELSE tempExists
    /\ pending' = IF exit = "normal" THEN "none" ELSE exit
    /\ pc' = "temp_finally"
    /\ UNCHANGED <<fsVars, localFiles, op, arg, batchVars, attempts,
                   lastOutcome, ret, raised, temp_path>>

\* The finally block, then the scope is left: normally, or with the error
\* that was in flight.
TempFinally ==
    /\ op = "download_file_temp"
    /\ pc = "temp_finally"
    /\ tempExists' = Cleanup(temp_path, tempExists)
    /\ IF pending = "none"
       THEN /\ pc' = "returned" /\ ret' = "None" /\ raised' = raised
       ELSE /\ pc' = "raised" /\ raised' = pending /\ ret' = ret
    /\ pending' = "none"
    /\ UNCHANGED <<fsVars, localFiles, op, arg, batchVars, attempts,
                   lastOutcome, temp_path>>

Next ==
    \/ \E f \in FileNames, o \in ClientOutcomes : CallUploadFile(f, o)
    \/ \E f \in FileNames, o \in ClientOutcomes : CallDownloadFile(f, o)
    \/ \E mw \in 1..MaxWorkers, da \in BOOLEAN : CallUploadFilesBatch(mw, da)
    \/ \E f \in FileNames : Submit(f)
    \/ WorkerTake
    \/ \E f \in FileNames, o \in ClientOutcomes : WorkerFinish(f, o)
    \/ \E f \in FileNames : AsCompletedNext(f)
    \/ \E out \in RemoveOutcomes : Remove(out)
    \/ ReturnAllOk
    \/ \E f \in FileNames, created \in BOOLEAN : CallDownloadFileTemp(f, created)
    \/ \E o \in ClientOutcomes : TempDownload(o)
    \/ \E exit \in BlockExits, unlinked \in BOOLEAN : CallerBlock(exit, unlinked)
    \/ TempFinally

Spec == Init /\ [][Next]_vars

\* ------------------------------------------------------------ properties

Batch == op = "upload_files_batch"
BatchReturned == Batch /\ pc = "returned"

\* The indices of the outcomes recorded for file f.
Recorded(f) == {i \in 1..Len(results) : results[i].file = f}

\* The upload of f completed without error: upload_file returned True.
Succeeded(f) == future[f].result = "True"

\* A succeeded outcome has been recorded for f.
RecordedSuccess(f) == \E i \in Recorded(f) : results[i].ok

\* C1: when upload_files_batch returns for a directory with N >= 1 direct
\* files, every dispatched upload has finished (nothing queued, nothing
\* running, every future finished) and exactly N outcomes are recorded, one
\* for each discovered file, none missing and none twice.
C1_OneOutcomePerFile ==
    (BatchReturned /\ files # {}) =>
        /\ queue = <<>>
        /\ Running = {}
        /\ Len(results) = Cardinality(files)
        /\ \A i \in 1..Len(results) : results[i].file \in files
        /\ \A f \in files :
              /\ future[f].state = "FINISHED"
              /\ Cardinality(Recorded(f)) = 1

\* C1 witness: a batch of more files than workers, with at least two
\* workers, has returned with all outcomes recorded.
C1_Witness ==
    /\ BatchReturned
    /\ max_workers >= 2
    /\ Cardinality(files) > max_workers
    /\ Len(results) = Cardinality(files)

\* C2: no error of an upload task leaves upload_files_batch, and when the
\* call returns, the upload of every discovered file was attempted (exactly
\* one client call each) and ran to completion, whether or not other uploads
\* failed or raised; what is returned is a boolean.
C2_AllAttemptedNoPropagation ==
    Batch =>
        /\ pc # "raised"
        /\ raised = "none"
        /\ pc = "returned" =>
              /\ ret \in {"True", "False"}
              /\ \A f \in files :
                    /\ attempts[f] = 1
                    /\ future[f].state = "FINISHED"
                    /\ Recorded(f) # {}

\* C2 witness: the batch returned although one upload raised, another
\* returned False, and a third succeeded; all three were attempted.
C2_Witness ==
    /\ BatchReturned
    /\ \E f, g, h \in files :
          /\ future[f].result = "exception"
          /\ future[g].result = "False"
          /\ future[h].result = "True"
          /\ attempts[f] = 1 /\ attempts[g] = 1 /\ attempts[h] = 1

\* C3: for a directory with at least one file, upload_files_batch returns
\* True exactly when every file's upload succeeded (an upload that returned
\* False or raised counts as failed), in any completion order.
C3_TrueIffAllSucceeded ==
    (BatchReturned /\ files # {}) =>
        (ret = "True" <=> \A f \in files : Succeeded(f))

\* C3 witness: a.txt succeeded, b.txt failed and was handled first, and the
\* batch returned False.
C3_Witness ==
    /\ BatchReturned
    /\ {"a.txt", "b.txt"} \subseteq files
    /\ future["a.txt"].result = "True"
    /\ future["b.txt"].result = "False"
    /\ results[1].file = "b.txt"
    /\ ret = "False"

\* C4: when source_dir does not exist, or exists but holds no direct files,
\* upload_files_batch returns False with no upload attempted, no outcome
\* recorded, no local file deleted and no error raised.
C4_MissingOrEmptyDirectory ==
    (Batch /\ (~dirExists \/ (localFiles = {} /\ removed = {}))) =>
        /\ pc = "returned"
        /\ ret = "False"
        /\ raised = "none"
        /\ results = <<>>
        /\ queue = <<>>
        /\ removed = {}
        /\ \A f \in FileNames : attempts[f] = 0 /\ future[f].state = "NONE"

\* C4 witness: the directory exists and holds only a subdirectory; the call
\* has returned False.
C4_Witness ==
    /\ BatchReturned
    /\ dirExists
    /\ subdirs # {}
    /\ localFiles = {}
    /\ removed = {}
    /\ ret = "False"

\* C5 as stated: with delete_after, after the batch returns every file whose
\* upload succeeded is absent locally, every file whose upload failed is
\* present, and os.remove was only called for files whose upload succeeded.
C5_Original ==
    (BatchReturned /\ delete_after) =>
        /\ \A f \in files :
              /\ Succeeded(f) => f \notin localFiles
              /\ ~Succeeded(f) => f \in localFiles
        /\ \A f \in removed : Succeeded(f)

\* C5 amended: with delete_after, after the batch returns every file whose
\* upload succeeded is absent locally unless os.remove failed for it (then
\* it is still present), every file whose upload failed is present, and at
\* every moment os.remove is only called for a file whose own upload
\* succeeded.
C5_DeleteOnlySucceeded ==
    (Batch /\ delete_after) =>
        /\ \A f \in removed : Succeeded(f)
        /\ pc = "remove" => Succeeded(cur)
        /\ pc = "returned" =>
              \A f \in files :
                 /\ (Succeeded(f) /\ f \notin removeFailed) => f \notin localFiles
                 /\ (Succeeded(f) /\ f \in removeFailed) => f \in localFiles
                 /\ ~Succeeded(f) => f \in localFiles

\* C5 witness: a batch with delete_after returned; one uploaded file is gone,
\* one failed upload's file is still there.
C5_Witness ==
    /\ BatchReturned
    /\ delete_after
    /\ \E f, g \in files :
          /\ Succeeded(f) /\ f \in removed /\ f \notin localFiles
          /\ ~Succeeded(g) /\ g \in localFiles

\* C6: a failure of os.remove after a successful upload leaves that file's
\* single recorded outcome succeeded, lets no error leave the batch, lets
\* every remaining file be handled, and does not by itself make the returned
\* aggregate False.
C6_RemoveFailureIsNotUploadFailure ==
    (Batch /\ delete_after) =>
        /\ \A f \in removeFailed :
              /\ Cardinality(Recorded(f)) = 1
              /\ \A i \in Recorded(f) : results[i].ok
        /\ pc # "raised"
        /\ (pc = "returned" /\ files # {}) =>
              /\ yielded = files
              /\ Len(results) = Cardinality(files)
              /\ (\A f \in files : Succeeded(f)) => ret = "True"

\* C6 witness: a batch of at least two files returned True although the
\* removal of one uploaded file failed.
C6_Witness ==
    /\ BatchReturned
    /\ delete_after
    /\ Cardinality(files) >= 2
    /\ removeFailed # {}
    /\ removed # removeFailed
    /\ ret = "True"

\* C7: at no instant are more than max_workers uploads in flight; with
\* max_workers = 1 no two uploads overlap.
C7_AtMostKInFlight ==
    Batch => Cardinality(Running) <= max_workers

\* C7 witness: two workers, both busy, and a third upload waiting in the
\* queue for one of them.
C7_Witness ==
    /\ Batch
    /\ max_workers = 2
    /\ Cardinality(Running) = 2
    /\ queue # <<>>

\* C8: download_file_temp: once the scope has been left (normally or with an
\* error, of the download or of the caller's block) the temporary file is
\* not on disk; while the caller's block runs after a successful download it
\* is on disk; and a failed download leaves the scope with the download's own
\* error.
C8_TempFileRemovedOnEveryExit ==
    op = "download_file_temp" =>
        /\ pc \in {"returned", "raised"} => ~tempExists
        /\ pc = "yielded" =>
              (tempExists /\ temp_path # "None" /\ lastOutcome = "ok")
        /\ (pc \in {"returned", "raised"} /\ lastOutcome \in {"ClientError", "OtherError"}) =>
              (pc = "raised" /\ raised = lastOutcome)
        /\ pc = "returned" => lastOutcome = "ok"

\* C8 witness: the download failed with a ClientError on a temporary file
\* that had been created; the scope was left with that error and the file is
\* gone.
C8_Witness ==
    /\ op = "download_file_temp"
    /\ pc = "raised"
    /\ temp_path # "None"
    /\ lastOutcome = "ClientError"
    /\ raised = "ClientError"
    /\ ~tempExists

\* C9: upload_file and download_file make exactly one client call and never
\* raise for an error of the storage client library: they return True
\* exactly when the client call completed, and False for any error.
C9_Original ==
    (op \in {"upload_file", "download_file"} /\ pc \in {"returned", "raised"}) =>
        /\ attempts[arg] = 1
        /\ pc = "returned"
        /\ raised = "none"
        /\ ret = "True" <=> lastOutcome = "ok"
        /\ lastOutcome # "ok" => ret = "False"

\* C10 as stated: with delete_after, in every reachable state in which a
\* succeeded outcome has been recorded for a file, that file is already
\* absent locally.
C10_Original ==
    (Batch /\ delete_after) =>
        \A f \in files : RecordedSuccess(f) => f \notin localFiles

\* C10 amended: with delete_after, the succeeded outcome of a file is
\* recorded first and os.remove is called for that file immediately after,
\* in the same loop iteration, before the next completion is handled and
\* before the batch returns: in every reachable state, a file with a
\* recorded succeeded outcome is absent locally, or its removal is the step
\* the loop is at, or its removal failed.
C10_DeleteRightAfterRecording ==
    (Batch /\ delete_after) =>
        \A f \in files :
            RecordedSuccess(f) =>
                \/ f \notin localFiles
                \/ pc = "remove" /\ cur = f
                \/ f \in removeFailed

\* C10 witness: an uploaded file has been recorded and removed while other
\* uploads of the batch are still queued or running.
C10_Witness ==
    /\ Batch
    /\ delete_after
    /\ pc = "pool"
    /\ \E f \in files : RecordedSuccess(f) /\ f \notin localFiles
    /\ \E g \in files : future[g].state \in {"PENDING", "RUNNING"}

====
